---------------------------- MODULE Spec2Model ----------------------------
(***************************************************************************)
(* 2048 on a Raspberry Pi (2048Final.py): the grid engine (merge_tiles,    *)
(* move_left/right/up/down, move, is_game_over, add_tile, new_game), the   *)
(* game session GAME_STATE with its bottle route handlers (move_tiles,     *)
(* restart_game, joystick_move_tiles, game_2048) and the joystick polling  *)
(* thread (handle_joystick_input).                                         *)
(*                                                                         *)
(* Six specifications share the engine operators:                          *)
(*   SpecLine     merge_tiles applied to every line over the tile values   *)
(*   SpecBoard    move / is_game_over applied to a bounded family of       *)
(*                boards                                                   *)
(*   SpecPure     move called twice on a grid of list objects              *)
(*   Spec         the session driven by move_tiles / restart_game calls    *)
(*                executed one at a time                                   *)
(*   SpecConc     the server thread and the polling thread, statement by   *)
(*                statement                                                *)
(*   SpecShutdown the main thread leaving run() next to the polling thread *)
(***************************************************************************)
EXTENDS Integers, Sequences, FiniteSets, TLC

VARIABLES
    line,        \* SpecLine: the argument of merge_tiles
    lineOut,     \* SpecLine: what merge_tiles returned for it, or NotCalled
    board,       \* SpecBoard: the grid argument of move / is_game_over
    boardOut,    \* SpecBoard: what move / is_game_over returned for it, or NotCalled
    GAME_STATE,  \* the session: [grid, score, high_score]
    last,        \* Spec: the last handler call made on the session and how it went
    ops,         \* Spec: number of handler calls made so far
    srv,         \* SpecConc: the server thread: the request it serves and where it is
    joy,         \* SpecConc: the polling thread: where it is, direction, directionPrev,
                 \*           and whether the button was pressed in its cycle
    page,        \* SpecConc: the page the browser shows: is "Game Over!" displayed
    whole,       \* SpecConc: the session when the last move_tiles / restart_game call returned
    served,      \* SpecConc: number of move and restart requests accepted so far
    polls,       \* SpecConc: number of poll cycles begun so far
    should_stop, \* handle_joystick_input.should_stop of lines 600 and 611
    peripherals  \* the ADC, the GPIO pins and the display: "in use" or "released"

engineVars == <<line, lineOut, board, boardOut>>

seqVars == <<last, ops>>

mainVars == <<should_stop, peripherals>>

concVars == <<srv, joy, page, whole, served, polls, should_stop, peripherals>>

vars == <<line, lineOut, board, boardOut, GAME_STATE, last, ops,
          srv, joy, page, whole, served, polls, should_stop, peripherals>>

----------------------------------------------------------------------------
(* Program constants and the bounds of the model *)

GRID_WIDTH == 4

\* Largest tile exponent of the enumerated inputs: cells are 0 or 2^1..2^MaxExp.
MaxExp == 2

Tiles == {0} \cup {2^e : e \in 1..MaxExp}

\* Handler calls explored from each initial session.
MaxOps == 2

\* Outcomes of random.choice explored: the first MaxChoice elements of its list.
MaxChoice == 2

\* How many states before the end of the recorded play are initial sessions too.
SeedDepth == 3

Idx == 1..GRID_WIDTH

NotCalled == [called |-> FALSE]

----------------------------------------------------------------------------
(* Python list helpers *)

\* A list built element by element, as a sequence value
List(f) == SubSeq(f, 1, Len(f))

\* [x for x in line if x != 0]
NonZero(s) == SelectSeq(s, LAMBDA x : x # 0)

\* [0] * n  (the empty list when n <= 0)
Zeros(n) == IF n <= 0 THEN <<>> ELSE List([k \in 1..n |-> 0])

\* row[::-1]
Reversed(s) == List([k \in 1..Len(s) |-> s[Len(s) + 1 - k]])

\* list(map(list, zip(*grid)))
Transposed(grid) ==
    IF Len(grid) = 0 THEN <<>>
    ELSE List([j \in 1..Len(grid[1]) |-> List([i \in 1..Len(grid) |-> grid[i][j]])])

RECURSIVE SumSeq(_)
SumSeq(s) == IF Len(s) = 0 THEN 0 ELSE Head(s) + SumSeq(Tail(s))

----------------------------------------------------------------------------
(* The grid engine *)

\* The for loop of merge_tiles, from index i (1-based) on: merged_line is
\* updated in place, a merged neighbour is set to 0 and so never equals the
\* nonzero cell after it.
RECURSIVE MergeLoop(_, _, _)
MergeLoop(merged_line, i, newAddedScore) ==
    IF i > Len(merged_line) - 1
    THEN [merged_line |-> merged_line, newAddedScore |-> newAddedScore]
    ELSE IF merged_line[i] = merged_line[i + 1]
         THEN LET merged_value == merged_line[i] * 2
              IN  MergeLoop([merged_line EXCEPT ![i] = merged_value, ![i + 1] = 0],
                            i + 1, newAddedScore + merged_value)
         ELSE MergeLoop(merged_line, i + 1, newAddedScore)

\* A bug merge_tiles could have: the zeros left by the merges are not removed
\* before padding (line 111 dropped).
merge_tiles_unpacked(ln) ==
    LET r == MergeLoop(NonZero(ln), 1, 0)
    IN  [merged_line   |-> r.merged_line \o Zeros(GRID_WIDTH - Len(r.merged_line)),
         newAddedScore |-> r.newAddedScore]

merge_tiles(ln) ==
    LET r      == MergeLoop(NonZero(ln), 1, 0)
        packed == NonZero(r.merged_line)
    IN  [merged_line   |-> packed \o Zeros(GRID_WIDTH - Len(packed)),
         newAddedScore |-> r.newAddedScore]

move_left(grid) ==
    LET m == [i \in 1..Len(grid) |-> merge_tiles(grid[i])]
    IN  [new_grid |-> List([i \in 1..Len(grid) |-> m[i].merged_line]),
         score    |-> SumSeq([i \in 1..Len(grid) |-> m[i].newAddedScore])]

\* A bug move_right could have: the merged row is not reversed back.
move_right_not_reversed_back(grid) ==
    LET m == [i \in 1..Len(grid) |-> merge_tiles(Reversed(grid[i]))]
    IN  [new_grid |-> List([i \in 1..Len(grid) |-> m[i].merged_line]),
         score    |-> SumSeq([i \in 1..Len(grid) |-> m[i].newAddedScore])]

move_right(grid) ==
    LET m == [i \in 1..Len(grid) |-> merge_tiles(Reversed(grid[i]))]
    IN  [new_grid |-> List([i \in 1..Len(grid) |-> Reversed(m[i].merged_line)]),
         score    |-> SumSeq([i \in 1..Len(grid) |-> m[i].newAddedScore])]

move_up(grid) ==
    LET r == move_left(Transposed(grid))
    IN  [new_grid |-> Transposed(r.new_grid), score |-> r.score]

move_down(grid) ==
    LET r == move_right(Transposed(grid))
    IN  [new_grid |-> Transposed(r.new_grid), score |-> r.score]

\* Bugs line 223 could have: all instead of any; a flag that is always set.
isGridUpdated_all(grid, new_grid) ==
    \A i \in 1..(IF Len(grid) < Len(new_grid) THEN Len(grid) ELSE Len(new_grid)) :
        grid[i] # new_grid[i]

isGridUpdated_always(grid, new_grid) == TRUE

\* any(old_row != new_row for old_row, new_row in zip(grid, new_grid))
isGridUpdated(grid, new_grid) ==
    \E i \in 1..(IF Len(grid) < Len(new_grid) THEN Len(grid) ELSE Len(new_grid)) :
        grid[i] # new_grid[i]

ValidDirections == {"w", "a", "s", "d"}

\* move: with a direction outside 'a','d','w','s' no branch binds new_grid and
\* line 223 raises UnboundLocalError.
move(grid, direction) ==
    IF direction \notin ValidDirections
    THEN [raised |-> "UnboundLocalError", new_grid |-> <<>>,
          newAddedScore |-> 0, isGridUpdated |-> FALSE]
    ELSE LET r == CASE direction = "a" -> move_left(grid)
                    [] direction = "d" -> move_right(grid)
                    [] direction = "w" -> move_up(grid)
                    [] direction = "s" -> move_down(grid)
         IN  [raised |-> "", new_grid |-> r.new_grid, newAddedScore |-> r.score,
              isGridUpdated |-> isGridUpdated(grid, r.new_grid)]

\* zip(row[:-1], row[1:]) of a row: some adjacent pair is equal or holds a 0
PairOpen(row) ==
    \E k \in 1..(Len(row) - 1) :
        row[k] = row[k + 1] \/ row[k] = 0 \/ row[k + 1] = 0

\* A bug is_game_over could have: the columns are not checked.
is_game_over_rows_only(grid) ==
    \A i \in 1..Len(grid) : ~PairOpen(grid[i])

is_game_over(grid) ==
    /\ \A i \in 1..Len(grid) : ~PairOpen(grid[i])
    /\ LET cols == Transposed(grid)
       IN  \A j \in 1..Len(cols) : ~PairOpen(cols[j])

\* The cells (i, j) in the order of "for i in range(GRID_WIDTH) for j in
\* range(GRID_WIDTH)", 1-based
AllCells ==
    List([k \in 1..(GRID_WIDTH * GRID_WIDTH) |->
            <<((k - 1) \div GRID_WIDTH) + 1, ((k - 1) % GRID_WIDTH) + 1>>])

\* empty_tiles of add_tile (line 84)
empty_tiles(grid) ==
    SelectSeq(AllCells, LAMBDA c : grid[c[1]][c[2]] = 0)

\* random.choice(seq): any element; the model draws among the first MaxChoice.
\* Of an empty list there is none (random.choice raises IndexError).
random_choice(seq) ==
    {seq[k] : k \in 1..(IF Len(seq) < MaxChoice THEN Len(seq) ELSE MaxChoice)}

\* SpawnValues of an add_tile that may also place a 6
SpawnValues_with_six == {2, 4, 6}

\* The values add_tile writes: 2 if random.random() < 0.9 else 4
SpawnValues == {2, 4}

\* A bug add_tile could have: the cell is drawn among all cells, empty or not.
add_tile_any_cell(grid) ==
    {[grid EXCEPT ![c[1]][c[2]] = v] : c \in random_choice(AllCells), v \in SpawnValues}

\* add_tile: the grids it can leave, one per outcome of random.choice and
\* random.random; none when empty_tiles is empty.
add_tile(grid) ==
    {[grid EXCEPT ![c[1]][c[2]] = v] :
        c \in random_choice(empty_tiles(grid)), v \in SpawnValues}

\* [[0 for _ in range(GRID_WIDTH)] for _ in range(GRID_WIDTH)]
EmptyGrid == List([i \in Idx |-> Zeros(GRID_WIDTH)])

\* A bug new_game could have: only one tile is added.
new_game_one_tile == add_tile(EmptyGrid)

\* new_game: the grids it can return
new_game == UNION {add_tile(g) : g \in add_tile(EmptyGrid)}

Idle == [pc |-> "idle"]

\* The threads' variables in a specification without threads
ConcUnused ==
    /\ srv = Idle
    /\ joy = Idle
    /\ page = FALSE
    /\ whole = <<>>
    /\ served = 0
    /\ polls = 0
    /\ should_stop = FALSE
    /\ peripherals = "in use"

\* The session variables of a specification that only exercises the engine.
SessionUnused ==
    /\ GAME_STATE = <<>>
    /\ last = NotCalled
    /\ ops = 0
    /\ ConcUnused

----------------------------------------------------------------------------
(* SpecLine: merge_tiles on every line of GRID_WIDTH cells *)

Lines == [Idx -> Tiles]

InitLine ==
    /\ line \in Lines
    /\ lineOut = NotCalled
    /\ board = <<>>
    /\ boardOut = NotCalled
    /\ SessionUnused

CallMergeTiles ==
    /\ lineOut = NotCalled
    /\ lineOut' = [called |-> TRUE, ret |-> merge_tiles(line)]
    /\ UNCHANGED <<line, board, boardOut, GAME_STATE, last, ops, concVars>>

NextLine == CallMergeTiles

SpecLine == InitLine /\ [][NextLine]_vars

----------------------------------------------------------------------------
(* SpecBoard: move and is_game_over on a bounded family of boards *)

\* Rows 2..GRID_WIDTH of an enumerated board: empty, full and alternating,
\* half full, with a gap, with an equal pair in the middle.
RowPatterns ==
    {<<0, 0, 0, 0>>, <<2, 4, 2, 4>>, <<4, 2, 4, 2>>,
     <<2, 2, 0, 0>>, <<0, 4, 0, 4>>, <<4, 2, 2, 4>>}

\* The enumerated boards: row 1 is an arbitrary line over Tiles.
Boards ==
    {[i \in Idx |-> IF i = 1 THEN top ELSE rest[i]] :
        top \in Lines, rest \in [2..GRID_WIDTH -> RowPatterns]}

InitBoard ==
    /\ board \in Boards
    /\ boardOut = NotCalled
    /\ line = <<>>
    /\ lineOut = NotCalled
    /\ SessionUnused

CallMove ==
    /\ boardOut = NotCalled
    /\ \E direction \in ValidDirections :
           boardOut' = [called |-> TRUE, fn |-> "move", direction |-> direction,
                        ret |-> move(board, direction)]
    /\ UNCHANGED <<board, line, lineOut, GAME_STATE, last, ops, concVars>>

CallIsGameOver ==
    /\ boardOut = NotCalled
    /\ boardOut' = [called |-> TRUE, fn |-> "is_game_over", direction |-> "",
                    ret |-> is_game_over(board)]
    /\ UNCHANGED <<board, line, lineOut, GAME_STATE, last, ops, concVars>>

NextBoard == CallMove \/ CallIsGameOver

SpecBoard == InitBoard /\ [][NextBoard]_vars

----------------------------------------------------------------------------
(* Claims about the engine: SpecLine and SpecBoard *)

\* The merge of a zero-free line, pair by pair from the left: an equal pair
\* becomes one doubled cell and the scan goes on behind the pair.
RECURSIVE MergePairs(_)
MergePairs(s) ==
    IF Len(s) < 2 THEN s
    ELSE IF s[1] = s[2]
         THEN <<2 * s[1]>> \o MergePairs(SubSeq(s, 3, Len(s)))
         ELSE <<s[1]>> \o MergePairs(Tail(s))

\* The sum of the values the pairwise merge creates
RECURSIVE MergePairsScore(_)
MergePairsScore(s) ==
    IF Len(s) < 2 THEN 0
    ELSE IF s[1] = s[2]
         THEN 2 * s[1] + MergePairsScore(SubSeq(s, 3, Len(s)))
         ELSE MergePairsScore(Tail(s))

\* C1: merge_tiles returns the line with its zeros removed, merged pair by
\* pair from the left (a merged cell never merges again), padded with zeros to
\* GRID_WIDTH, and the score is the sum of the values the merges created;
\* [2,2,2,0] -> [4,2,0,0] (4), [2,2,2,2] -> [4,4,0,0] (8), [0,0,2,2] ->
\* [4,0,0,0] (4).
C1_MergeTilesPairsLeftToRight ==
    lineOut.called =>
        LET merged == MergePairs(NonZero(line))
        IN  /\ lineOut.ret.merged_line = merged \o Zeros(GRID_WIDTH - Len(merged))
            /\ Len(lineOut.ret.merged_line) = GRID_WIDTH
            /\ lineOut.ret.newAddedScore = MergePairsScore(NonZero(line))
            /\ line = <<2, 2, 2, 0>> =>
                   lineOut.ret = [merged_line |-> <<4, 2, 0, 0>>, newAddedScore |-> 4]
            /\ line = <<2, 2, 2, 2>> =>
                   lineOut.ret = [merged_line |-> <<4, 4, 0, 0>>, newAddedScore |-> 8]
            /\ line = <<0, 0, 2, 2>> =>
                   lineOut.ret = [merged_line |-> <<4, 0, 0, 0>>, newAddedScore |-> 4]

C1_Witness ==
    /\ lineOut.called
    /\ line = <<2, 2, 4, 0>>
    /\ lineOut.ret = [merged_line |-> <<4, 4, 0, 0>>, newAddedScore |-> 4]

\* The row-wise mirror of a board
Mirror(b) == List([i \in 1..Len(b) |-> Reversed(b[i])])

\* Line i of the board as the move in direction d hands it to merge_tiles
LineOf(b, d, i) ==
    CASE d = "a" -> b[i]
      [] d = "d" -> Reversed(b[i])
      [] d = "w" -> Transposed(b)[i]
      [] d = "s" -> Reversed(Transposed(b)[i])

ExampleBoard == <<<<2, 2, 0, 0>>, <<0, 0, 0, 0>>, <<0, 0, 0, 0>>, <<0, 0, 0, 0>>>>

\* C2: move left merges each row as it is; right is the mirror of left on the
\* mirrored board; up is the transpose of left on the transposed board; down
\* is the transpose of right on the transposed board; the score is the sum of
\* the merge scores of the lines; the example board gives [4,0,0,0] to the
\* left and [0,0,0,4] to the right, score 4 and changed both times.
C2_MoveByDirection ==
    (boardOut.called /\ boardOut.fn = "move") =>
        LET d == boardOut.direction
            r == boardOut.ret
        IN  /\ r.raised = ""
            /\ d = "a" => \A i \in Idx : r.new_grid[i] = merge_tiles(board[i]).merged_line
            /\ d = "d" => r.new_grid = Mirror(move(Mirror(board), "a").new_grid)
            /\ d = "w" => r.new_grid = Transposed(move(Transposed(board), "a").new_grid)
            /\ d = "s" => r.new_grid = Transposed(move(Transposed(board), "d").new_grid)
            /\ r.newAddedScore =
                   SumSeq([i \in Idx |-> merge_tiles(LineOf(board, d, i)).newAddedScore])
            /\ (board = ExampleBoard /\ d = "a") =>
                   /\ r.new_grid[1] = <<4, 0, 0, 0>>
                   /\ r.newAddedScore = 4
                   /\ r.isGridUpdated
            /\ (board = ExampleBoard /\ d = "d") =>
                   /\ r.new_grid[1] = <<0, 0, 0, 4>>
                   /\ r.newAddedScore = 4
                   /\ r.isGridUpdated

C2_Witness ==
    /\ boardOut.called
    /\ boardOut.fn = "move"
    /\ board = ExampleBoard
    /\ boardOut.direction = "d"
    /\ boardOut.ret.new_grid = <<<<0, 0, 0, 4>>, <<0, 0, 0, 0>>, <<0, 0, 0, 0>>, <<0, 0, 0, 0>>>>
    /\ boardOut.ret.newAddedScore = 4

\* Some cell of the two boards differs
BoardsDiffer(b1, b2) ==
    \E i \in Idx, j \in Idx : b1[i][j] # b2[i][j]

\* Every line the move in direction d merges is full and has no equal neighbours
LinesPacked(b, d) ==
    \A i \in Idx :
        LET ln == LineOf(b, d, i)
        IN  /\ \A j \in Idx : ln[j] # 0
            /\ \A j \in 1..(GRID_WIDTH - 1) : ln[j] # ln[j + 1]

\* C3: the changed flag of move is true exactly when the returned board
\* differs from the argument in some cell, whatever the score gained; an
\* unchanged move returns a board equal to the argument, and a move into
\* full lines without equal neighbours is unchanged.
C3_ChangedIffBoardDiffers ==
    (boardOut.called /\ boardOut.fn = "move") =>
        LET r == boardOut.ret
        IN  /\ r.isGridUpdated <=> BoardsDiffer(board, r.new_grid)
            /\ ~r.isGridUpdated => r.new_grid = board
            /\ LinesPacked(board, boardOut.direction) =>
                   (~r.isGridUpdated /\ r.new_grid = board)

\* A move that only shifts: changed, with no score gained
C3_Witness ==
    /\ boardOut.called
    /\ boardOut.fn = "move"
    /\ boardOut.ret.isGridUpdated
    /\ boardOut.ret.newAddedScore = 0
    /\ BoardsDiffer(board, boardOut.ret.new_grid)

\* No cell is empty and no two horizontal or vertical neighbours are equal
NoEmptyNoEqualNeighbours(b) ==
    /\ \A i \in Idx, j \in Idx : b[i][j] # 0
    /\ \A i \in Idx, j \in 1..(GRID_WIDTH - 1) : b[i][j] # b[i][j + 1]
    /\ \A i \in 1..(GRID_WIDTH - 1), j \in Idx : b[i][j] # b[i + 1][j]

NoMoveChanges(b) ==
    \A d \in ValidDirections : ~move(b, d).isGridUpdated

\* C4 as stated: for every board, is_game_over is true iff the board has no
\* empty cell and no equal neighbours, and iff no move in any direction
\* changes it. (The board without any tile is not over, and no move changes it.)
C4_AsStated ==
    (boardOut.called /\ boardOut.fn = "is_game_over") =>
        /\ boardOut.ret <=> NoEmptyNoEqualNeighbours(board)
        /\ boardOut.ret <=> NoMoveChanges(board)

\* C4, amended: is_game_over is true iff the board has no empty cell and no
\* equal neighbours; and for every board with at least one tile, iff no move
\* in any direction changes it.
C4_GameOverIffNoMoveChanges ==
    (boardOut.called /\ boardOut.fn = "is_game_over") =>
        /\ boardOut.ret <=> NoEmptyNoEqualNeighbours(board)
        /\ (\E i \in Idx, j \in Idx : board[i][j] # 0) =>
               (boardOut.ret <=> NoMoveChanges(board))

\* A full board with no equal neighbours: over, and no move changes it
C4_Witness ==
    /\ boardOut.called
    /\ boardOut.fn = "is_game_over"
    /\ boardOut.ret
    /\ NoEmptyNoEqualNeighbours(board)
    /\ NoMoveChanges(board)

----------------------------------------------------------------------------
(* Spec: the session, one handler call at a time *)

\* A play of the program from process start to game over: the grid new_game
\* returned, then the grid after each move_tiles call (the moved grid with
\* the tile add_tile placed), and the direction of each call. The states near
\* its end are initial sessions, so that full and nearly full boards are
\* explored.
PlayBoards ==
    << <<<<0, 0, 0, 0>>, <<0, 0, 2, 0>>, <<2, 0, 0, 0>>, <<0, 0, 0, 0>>>>,
       <<<<0, 0, 0, 0>>, <<0, 2, 0, 0>>, <<0, 0, 0, 0>>, <<2, 0, 2, 0>>>>,
       <<<<2, 2, 2, 4>>, <<0, 0, 0, 0>>, <<0, 0, 0, 0>>, <<0, 0, 0, 0>>>>,
       <<<<0, 0, 0, 0>>, <<0, 0, 0, 0>>, <<4, 0, 0, 0>>, <<2, 2, 2, 4>>>>,
       <<<<4, 2, 2, 4>>, <<2, 0, 4, 0>>, <<0, 0, 0, 0>>, <<0, 0, 0, 0>>>>,
       <<<<0, 0, 0, 2>>, <<0, 0, 0, 0>>, <<4, 0, 2, 0>>, <<2, 2, 4, 4>>>>,
       <<<<4, 2, 2, 2>>, <<2, 0, 4, 4>>, <<0, 0, 0, 0>>, <<0, 4, 0, 0>>>>,
       <<<<4, 2, 2, 2>>, <<2, 4, 4, 4>>, <<0, 2, 0, 0>>, <<0, 0, 0, 0>>>>,
       <<<<0, 0, 0, 0>>, <<0, 2, 4, 0>>, <<4, 4, 2, 2>>, <<2, 2, 4, 4>>>>,
       <<<<4, 2, 4, 2>>, <<2, 4, 2, 4>>, <<0, 2, 4, 0>>, <<0, 4, 0, 0>>>>,
       <<<<0, 2, 0, 4>>, <<0, 4, 4, 0>>, <<4, 2, 2, 2>>, <<2, 4, 4, 4>>>>,
       <<<<4, 2, 4, 4>>, <<2, 4, 2, 2>>, <<0, 2, 4, 4>>, <<0, 4, 2, 0>>>>,
       <<<<4, 2, 4, 0>>, <<0, 4, 2, 4>>, <<4, 2, 4, 2>>, <<2, 4, 2, 4>>>>,
       <<<<4, 2, 4, 4>>, <<4, 2, 4, 0>>, <<4, 2, 4, 2>>, <<2, 4, 2, 4>>>>,
       <<<<0, 4, 2, 8>>, <<2, 4, 2, 4>>, <<4, 2, 4, 2>>, <<2, 4, 2, 4>>>>,
       <<<<4, 2, 8, 2>>, <<2, 4, 2, 4>>, <<4, 2, 4, 2>>, <<2, 4, 2, 4>>>> >>

PlayDirections ==
    <<"s", "w", "s", "w", "s", "w", "w", "s", "w", "s", "w", "s", "a", "d", "a">>

\* lines 466-467 with a bug: the high score is never raised
high_score_kept(score, high_score) == high_score

\* lines 466-467: the high score after the score was increased
high_score_update(score, high_score) ==
    IF score > high_score THEN score ELSE high_score

\* A bug the guard of line 455 could have: every direction is let through.
direction_valid_any(direction) == TRUE

\* line 455: direction in ('w', 'a', 's', 'd')
direction_valid(direction) == direction \in ValidDirections

\* add_tile(grid) can leave g, whichever element random.choice draws
CanPlace(grid, g) ==
    LET e == empty_tiles(grid)
    IN  \E n \in 1..Len(e), v \in SpawnValues :
            g = [grid EXCEPT ![e[n][1]][e[n][2]] = v]

\* The play is one the program can make: its first grid is one new_game can
\* return, every call changes the grid, and every next grid is the moved grid
\* with one tile add_tile can place.
PlayIsAPlay ==
    /\ \E c \in Idx \X Idx, v \in SpawnValues :
          CanPlace([EmptyGrid EXCEPT ![c[1]][c[2]] = v], PlayBoards[1])
    /\ \A step \in 1..Len(PlayDirections) :
          LET m == move(PlayBoards[step], PlayDirections[step])
          IN  m.isGridUpdated /\ CanPlace(m.new_grid, PlayBoards[step + 1])

\* The score after the first k calls of the play (the high score is the same:
\* the play is the first game of the process).
PlayScore[k \in 0..Len(PlayDirections)] ==
    IF k = 0 THEN 0
    ELSE PlayScore[k - 1] + move(PlayBoards[k], PlayDirections[k]).newAddedScore

SeedStates ==
    {[grid       |-> PlayBoards[k + 1],
      score      |-> PlayScore[k],
      high_score |-> high_score_update(PlayScore[k], 0)] :
        k \in (Len(PlayDirections) - SeedDepth)..Len(PlayDirections)}

\* The directions a request can carry: the four valid ones, another letter,
\* and "" for a request without one (None).
Directions == ValidDirections \cup {"x", ""}

\* last: the handler called (op), its direction, the session before the call
\* (pre), what move returned (moved, addedScore), whether add_tile was called
\* by move_tiles (spawned), the exception that ended the call (raised) and
\* whether it ended in redirect('/').
NoCall ==
    [op |-> "none", direction |-> "",
     pre |-> [grid |-> <<>>, score |-> 0, high_score |-> 0],
     moved |-> FALSE, addedScore |-> 0, spawned |-> FALSE,
     raised |-> "", redirect |-> FALSE]

EngineUnused ==
    /\ line = <<>>
    /\ lineOut = NotCalled
    /\ board = <<>>
    /\ boardOut = NotCalled

\* GAME_STATE of __main__ (lines 589-593), or a state of the recorded play
Init ==
    /\ PlayIsAPlay
    /\ \/ /\ GAME_STATE \in {[grid |-> g, score |-> 0, high_score |-> 0] : g \in new_game}
          /\ last = [NoCall EXCEPT !.op = "__main__"]
       \/ /\ GAME_STATE \in SeedStates
          /\ last = [NoCall EXCEPT !.op = "play"]
    /\ ops = 0
    /\ EngineUnused
    /\ ConcUnused

\* move_tiles(direction), lines 447-472, as one step. A request without a
\* direction reads it from the form, which holds none either, and ends in
\* redirect('/').
MoveTiles ==
    /\ ops < MaxOps
    /\ ops' = ops + 1
    /\ UNCHANGED <<engineVars, concVars>>
    /\ \E direction \in Directions :
         LET call == [NoCall EXCEPT !.op = "move_tiles", !.direction = direction,
                                    !.pre = GAME_STATE,
                                    !.redirect = (direction = "")]
         IN
         IF ~direction_valid(direction)
         THEN /\ GAME_STATE' = GAME_STATE
              /\ last' = call
         ELSE LET m == move(GAME_STATE.grid, direction) IN
              IF m.raised # ""
              THEN /\ GAME_STATE' = GAME_STATE
                   /\ last' = [call EXCEPT !.raised = m.raised]
              ELSE IF ~m.isGridUpdated
              THEN /\ GAME_STATE' = [GAME_STATE EXCEPT !.grid = m.new_grid]
                   /\ last' = [call EXCEPT !.addedScore = m.newAddedScore]
              ELSE IF add_tile(m.new_grid) = {}
              THEN /\ GAME_STATE' = [GAME_STATE EXCEPT !.grid = m.new_grid]
                   /\ last' = [call EXCEPT !.moved = TRUE, !.spawned = TRUE,
                                           !.addedScore = m.newAddedScore,
                                           !.raised = "IndexError"]
              ELSE /\ \E g \in add_tile(m.new_grid) :
                        LET score == GAME_STATE.score + m.newAddedScore
                        IN  GAME_STATE' =
                              [grid       |-> g,
                               score      |-> score,
                               high_score |-> high_score_update(score, GAME_STATE.high_score)]
                   /\ last' = [call EXCEPT !.moved = TRUE, !.spawned = TRUE,
                                           !.addedScore = m.newAddedScore]

\* restart_game, lines 432-436, as one step
RestartGame ==
    /\ ops < MaxOps
    /\ ops' = ops + 1
    /\ \E g \in new_game :
         GAME_STATE' = [GAME_STATE EXCEPT !.grid = g, !.score = 0]
    /\ last' = [NoCall EXCEPT !.op = "restart_game", !.pre = GAME_STATE]
    /\ UNCHANGED <<engineVars, concVars>>

Next == MoveTiles \/ RestartGame

Spec == Init /\ [][Next]_vars

----------------------------------------------------------------------------
(* Claims about the session: Spec *)

\* The last call was move_tiles with one of the four directions
ValidMoveCalled ==
    last.op = "move_tiles" /\ last.direction \in ValidDirections

\* What the engine returns for the last call's direction on the board before it
EngineMove == move(last.pre.grid, last.direction)

\* The cells in which two boards differ
DifferingCells(b1, b2) ==
    {c \in Idx \X Idx : b1[c[1]][c[2]] # b2[c[1]][c[2]]}

\* C5: a move_tiles call with a valid direction whose engine move reports
\* changed=false (the moved board equals the board) spawns no tile and leaves
\* board, score and high score as they were.
C5_UnchangedMoveLeavesSession ==
    (ValidMoveCalled /\ (~EngineMove.isGridUpdated \/ EngineMove.new_grid = last.pre.grid)) =>
        /\ ~last.spawned
        /\ last.raised = ""
        /\ GAME_STATE.grid = last.pre.grid
        /\ GAME_STATE.score = last.pre.score
        /\ GAME_STATE.high_score = last.pre.high_score

\* An unchanged move on a board that still has empty cells
C5_Witness ==
    /\ ValidMoveCalled
    /\ ~EngineMove.isGridUpdated
    /\ ~last.moved
    /\ Len(empty_tiles(last.pre.grid)) > 0
    /\ GAME_STATE = last.pre

\* C6: a move_tiles call with a valid direction whose engine move reports
\* changed=true leaves the moved board with exactly one of its empty cells
\* set to 2 or 4, the score increased by the score gained, and the high score
\* the maximum of its old value and the new score.
C6_ChangedMoveSpawnsAndScores ==
    (ValidMoveCalled /\ EngineMove.isGridUpdated) =>
        LET moved == EngineMove.new_grid
            diff  == DifferingCells(GAME_STATE.grid, moved)
        IN  /\ last.raised = ""
            /\ Cardinality(diff) = 1
            /\ \A c \in diff : /\ moved[c[1]][c[2]] = 0
                                /\ GAME_STATE.grid[c[1]][c[2]] \in {2, 4}
            /\ GAME_STATE.score = last.pre.score + EngineMove.newAddedScore
            /\ GAME_STATE.high_score =
                   IF GAME_STATE.score > last.pre.high_score
                   THEN GAME_STATE.score ELSE last.pre.high_score

\* A changed move that merged and raised the high score
C6_Witness ==
    /\ ValidMoveCalled
    /\ EngineMove.isGridUpdated
    /\ EngineMove.newAddedScore > 0
    /\ last.spawned
    /\ GAME_STATE.score = last.pre.score + EngineMove.newAddedScore
    /\ GAME_STATE.high_score > last.pre.high_score

\* C7: add_tile is never called on a board without an empty cell: the board
\* of every move that reports changed=true has one, so random.choice never
\* fails.
C7_SpawnOnlyWithEmptyCell ==
    /\ last.raised # "IndexError"
    /\ (last.op = "move_tiles" /\ last.spawned) =>
           Len(empty_tiles(EngineMove.new_grid)) >= 1

\* A changed move on a nearly full board: the moved board has one empty cell
C7_Witness ==
    /\ ValidMoveCalled
    /\ last.moved
    /\ last.spawned
    /\ Len(empty_tiles(EngineMove.new_grid)) = 1
    /\ Len(empty_tiles(GAME_STATE.grid)) = 0

\* The board has exactly two tiles, each a 2 or a 4
TwoTiles(b) ==
    /\ Cardinality({c \in Idx \X Idx : b[c[1]][c[2]] # 0}) = 2
    /\ \A c \in Idx \X Idx : b[c[1]][c[2]] \in {0, 2, 4}

\* C8: after restart_game the score is 0, the board has exactly two tiles,
\* each 2 or 4, and the high score is the one before the restart; the session
\* at process start has two tiles and score 0 too.
C8_RestartResetsScoreKeepsHighScore ==
    /\ last.op = "restart_game" =>
           /\ GAME_STATE.score = 0
           /\ TwoTiles(GAME_STATE.grid)
           /\ GAME_STATE.high_score = last.pre.high_score
    /\ last.op = "__main__" =>
           /\ GAME_STATE.score = 0
           /\ TwoTiles(GAME_STATE.grid)

\* A restart of a game with a score: the score is reset, the high score kept
C8_Witness ==
    /\ last.op = "restart_game"
    /\ last.pre.score > 0
    /\ last.pre.high_score > 0
    /\ GAME_STATE.score = 0
    /\ GAME_STATE.high_score = last.pre.high_score

\* C9: a move request whose direction is not 'w', 'a', 's' or 'd' is ignored
\* without an error: board, score and high score are unchanged and no tile is
\* spawned.
C9_InvalidDirectionIgnored ==
    (last.op = "move_tiles" /\ last.direction \notin ValidDirections) =>
        /\ last.raised = ""
        /\ ~last.spawned
        /\ GAME_STATE = last.pre

C9_Witness ==
    /\ last.op = "move_tiles"
    /\ last.direction = "x"
    /\ GAME_STATE = last.pre
    /\ Len(empty_tiles(GAME_STATE.grid)) > 0


----------------------------------------------------------------------------
(* The program with its two threads: SpecConc                              *)
(*                                                                         *)
(* run(host='localhost', port=8080) of line 605 serves the routes from the *)
(* main thread with bottle's default server, which handles one request at  *)
(* a time: the handlers game_2048, move_tiles, restart_game and            *)
(* joystick_move_tiles never overlap each other. The thread started in     *)
(* line 603 runs handle_joystick_input next to them. It submits its moves  *)
(* and restarts as requests and waits for the response, but in line 535 it *)
(* reads GAME_STATE['grid'] itself, without any lock, wherever the server  *)
(* thread happens to be. The handlers are therefore modelled one           *)
(* statement on GAME_STATE at a time.                                      *)

JOYSTICK_THRESHOLD_MIN == 50

JOYSTICK_THRESHOLD_MAX == 250

\* Readings of an axis of the joystick: both thresholds and the rest position
AxisValues == {JOYSTICK_THRESHOLD_MIN, 128, JOYSTICK_THRESHOLD_MAX}

MaxRequests == 2

MaxPolls == 2

\* direction of lines 538-548 for the readings of a cycle without the button
joystick_direction(xAxisVal, yAxisVal) ==
    IF xAxisVal <= JOYSTICK_THRESHOLD_MIN THEN "a"
    ELSE IF xAxisVal >= JOYSTICK_THRESHOLD_MAX THEN "d"
    ELSE IF yAxisVal <= JOYSTICK_THRESHOLD_MIN THEN "w"
    ELSE IF yAxisVal >= JOYSTICK_THRESHOLD_MAX THEN "s"
    ELSE ""

\* The server thread on entering a handler
Serving(route, from, direction, pc) ==
    [pc |-> pc, route |-> route, from |-> from, direction |-> direction,
     addedScore |-> 0, moved |-> FALSE, raised |-> "", response |-> <<>>]

\* game_data_cur with the flag of the last page render instead of a fresh one
game_data_cur_stored_flag ==
    [grid       |-> GAME_STATE.grid,
     score      |-> GAME_STATE.score,
     high_score |-> GAME_STATE.high_score,
     game_over  |-> page]

\* game_data_cur of lines 574-579
game_data_cur ==
    [grid       |-> GAME_STATE.grid,
     score      |-> GAME_STATE.score,
     high_score |-> GAME_STATE.high_score,
     game_over  |-> is_game_over(GAME_STATE.grid)]

InitConc ==
    /\ PlayIsAPlay
    /\ GAME_STATE \in {[grid |-> g, score |-> 0, high_score |-> 0] : g \in new_game}
                         \cup SeedStates
    /\ srv = Idle
    /\ joy = [pc |-> "530", direction |-> "", directionPrev |-> "", pressed |-> FALSE]
    /\ page = FALSE
    /\ whole = GAME_STATE
    /\ served = 0
    /\ polls = 0
    /\ should_stop = FALSE
    /\ peripherals = "in use"
    /\ last = NotCalled
    /\ ops = 0
    /\ EngineUnused

\* PostMove by a server that enters a handler while another one is executing
PostMove_any_time ==
    /\ served < MaxRequests
    /\ served' = served + 1
    /\ \E direction \in Directions :
         srv' = Serving("/move", "browser", direction, "455")
    /\ UNCHANGED <<engineVars, seqVars, mainVars, GAME_STATE, joy, page, whole, polls>>

\* A key of the page, lines 322-340, or any other client: POST /move
PostMove ==
    /\ srv.pc = "idle"
    /\ served < MaxRequests
    /\ served' = served + 1
    /\ \E direction \in Directions :
         srv' = Serving("/move", "browser", direction, "455")
    /\ UNCHANGED <<engineVars, seqVars, mainVars, GAME_STATE, joy, page, whole, polls>>

\* The Space key of the page, lines 342-358: POST /restart while the page
\* shows the game-over message
PostRestartKey ==
    /\ srv.pc = "idle"
    /\ page
    /\ served < MaxRequests
    /\ served' = served + 1
    /\ srv' = Serving("/restart", "browser", "", "434")
    /\ UNCHANGED <<engineVars, seqVars, mainVars, GAME_STATE, joy, page, whole, polls>>

\* The server accepts the polling thread's requests.post of line 536
PostRestartButton ==
    /\ srv.pc = "idle"
    /\ joy.pc = "536"
    /\ served < MaxRequests
    /\ served' = served + 1
    /\ srv' = Serving("/restart", "poller", "", "434")
    /\ joy' = [joy EXCEPT !.pc = "response"]
    /\ UNCHANGED <<engineVars, seqVars, mainVars, GAME_STATE, page, whole, polls>>

\* The server accepts the polling thread's requests.get of line 553;
\* joystick_move_tiles, lines 569-572, calls move_tiles(direction)
GetJoystickMove ==
    /\ srv.pc = "idle"
    /\ joy.pc = "553"
    /\ served < MaxRequests
    /\ served' = served + 1
    /\ srv' = Serving("/joystick_move", "poller", joy.direction, "455")
    /\ joy' = [joy EXCEPT !.pc = "response"]
    /\ UNCHANGED <<engineVars, seqVars, mainVars, GAME_STATE, page, whole, polls>>

\* pollJoystickInput of the page: GET /joystick_move without a direction,
\* lines 569-571: move_tiles is not called
GetJoystickPoll ==
    /\ srv.pc = "idle"
    /\ srv' = Serving("/joystick_move", "browser", "", "574")
    /\ UNCHANGED <<engineVars, seqVars, mainVars, GAME_STATE, joy, page, whole,
                   served, polls>>

\* game_2048, lines 263-402: GET / renders the session and the browser shows it
GetPage ==
    /\ srv.pc = "idle"
    /\ page' = is_game_over(GAME_STATE.grid)
    /\ UNCHANGED <<engineVars, seqVars, mainVars, GAME_STATE, srv, joy, whole, served, polls>>

\* Where the server thread goes when move_tiles returns
AfterMoveTiles == IF srv.route = "/joystick_move" THEN "574" ELSE "reply"

\* move_tiles, lines 455-458: the direction check and the assignment of the
\* engine's result to GAME_STATE['grid'], addedScore and moved
MoveTiles458 ==
    /\ srv.pc = "455"
    /\ IF ~direction_valid(srv.direction)
       THEN /\ srv' = [srv EXCEPT !.pc = AfterMoveTiles]
            /\ whole' = GAME_STATE
            /\ UNCHANGED GAME_STATE
       ELSE LET m == move(GAME_STATE.grid, srv.direction) IN
            IF m.raised # ""
            THEN /\ srv' = [srv EXCEPT !.pc = "reply", !.raised = m.raised]
                 /\ UNCHANGED <<GAME_STATE, whole>>
            ELSE /\ GAME_STATE' = [GAME_STATE EXCEPT !.grid = m.new_grid]
                 /\ srv' = [srv EXCEPT !.addedScore = m.newAddedScore,
                                       !.moved = m.isGridUpdated,
                                       !.pc = IF m.isGridUpdated THEN "461"
                                              ELSE AfterMoveTiles]
                 /\ whole' = IF m.isGridUpdated THEN whole ELSE GAME_STATE'
    /\ UNCHANGED <<engineVars, seqVars, mainVars, joy, page, served, polls>>

\* move_tiles, line 461: add_tile(GAME_STATE['grid']) sets one cell in place
MoveTiles461 ==
    /\ srv.pc = "461"
    /\ IF add_tile(GAME_STATE.grid) = {}
       THEN /\ srv' = [srv EXCEPT !.pc = "reply", !.raised = "IndexError"]
            /\ UNCHANGED GAME_STATE
       ELSE /\ \E g \in add_tile(GAME_STATE.grid) :
                 GAME_STATE' = [GAME_STATE EXCEPT !.grid = g]
            /\ srv' = [srv EXCEPT !.pc = "463"]
    /\ UNCHANGED <<engineVars, seqVars, mainVars, joy, page, whole, served, polls>>

\* move_tiles, line 463: GAME_STATE['score'] += addedScore
MoveTiles463 ==
    /\ srv.pc = "463"
    /\ GAME_STATE' = [GAME_STATE EXCEPT !.score = @ + srv.addedScore]
    /\ srv' = [srv EXCEPT !.pc = "466"]
    /\ UNCHANGED <<engineVars, seqVars, mainVars, joy, page, whole, served, polls>>

\* move_tiles, lines 466-469: the high score; move_tiles returns
MoveTiles466 ==
    /\ srv.pc = "466"
    /\ GAME_STATE' = [GAME_STATE EXCEPT
                        !.high_score = high_score_update(GAME_STATE.score, @)]
    /\ srv' = [srv EXCEPT !.pc = AfterMoveTiles]
    /\ whole' = GAME_STATE'
    /\ UNCHANGED <<engineVars, seqVars, mainVars, joy, page, served, polls>>

\* joystick_move_tiles, lines 574-581: the snapshot it returns
JoystickMoveTiles574 ==
    /\ srv.pc = "574"
    /\ srv' = [srv EXCEPT !.pc = "reply", !.response = game_data_cur]
    /\ UNCHANGED <<engineVars, seqVars, mainVars, GAME_STATE, joy, page, whole, served, polls>>

\* restart_game, line 434: GAME_STATE['grid'] = new_game()
RestartGame434 ==
    /\ srv.pc = "434"
    /\ \E g \in new_game : GAME_STATE' = [GAME_STATE EXCEPT !.grid = g]
    /\ srv' = [srv EXCEPT !.pc = "435"]
    /\ UNCHANGED <<engineVars, seqVars, mainVars, joy, page, whole, served, polls>>

\* restart_game, lines 435-436: GAME_STATE['score'] = 0; restart_game returns
RestartGame435 ==
    /\ srv.pc = "435"
    /\ GAME_STATE' = [GAME_STATE EXCEPT !.score = 0]
    /\ srv' = [srv EXCEPT !.pc = "reply"]
    /\ whole' = GAME_STATE'
    /\ UNCHANGED <<engineVars, seqVars, mainVars, joy, page, served, polls>>

\* The response leaves the server; requests.post / requests.get of the
\* polling thread return, and it goes on to line 555
Reply ==
    /\ srv.pc = "reply"
    /\ srv' = Idle
    /\ joy' = IF srv.from = "poller" THEN [joy EXCEPT !.pc = "555"] ELSE joy
    /\ UNCHANGED <<engineVars, seqVars, mainVars, GAME_STATE, page, whole, served, polls>>

\* handle_joystick_input, lines 528-534 and 538-552: a cycle reads the axes
\* and the button. With the button pressed it goes to the check of line 535;
\* otherwise the axes give the direction, which is submitted in line 553 if
\* it is one and differs from directionPrev.
JoystickCycle(counted) ==
    /\ joy.pc = "530"
    /\ counted => polls < MaxPolls
    /\ polls' = IF counted THEN polls + 1 ELSE polls
    /\ \E pressed \in BOOLEAN, xAxisVal \in AxisValues, yAxisVal \in AxisValues :
         LET direction == joystick_direction(xAxisVal, yAxisVal) IN
         joy' = IF pressed
                THEN [joy EXCEPT !.pc = "535", !.direction = "", !.pressed = TRUE]
                ELSE [joy EXCEPT !.direction = direction, !.pressed = FALSE,
                                 !.pc = IF direction # "" /\ direction # joy.directionPrev
                                        THEN "553" ELSE "555"]
    /\ UNCHANGED <<engineVars, seqVars, mainVars, GAME_STATE, srv, page, whole, served>>

\* A cycle of the loop, one of at most MaxPolls
JoystickPoll == JoystickCycle(TRUE)

\* JoystickGameOverCheck by a loop that posts the restart on any board
JoystickGameOverCheck_ungated ==
    /\ joy.pc = "535"
    /\ joy' = [joy EXCEPT !.pc = "536"]
    /\ UNCHANGED <<engineVars, seqVars, mainVars, GAME_STATE, srv, page, whole, served, polls>>

\* handle_joystick_input, line 535: is_game_over(GAME_STATE['grid']), read
\* from the polling thread wherever the server thread is
JoystickGameOverCheck ==
    /\ joy.pc = "535"
    /\ joy' = [joy EXCEPT !.pc = IF is_game_over(GAME_STATE.grid) THEN "536" ELSE "555"]
    /\ UNCHANGED <<engineVars, seqVars, mainVars, GAME_STATE, srv, page, whole, served, polls>>

\* JoystickRemember by a loop that leaves directionPrev as it was
JoystickRemember_forgets ==
    /\ joy.pc = "555"
    /\ joy' = [joy EXCEPT !.pc = "530"]
    /\ UNCHANGED <<engineVars, seqVars, mainVars, GAME_STATE, srv, page, whole, served, polls>>

\* handle_joystick_input, lines 555-557: directionPrev = direction; sleep
JoystickRemember ==
    /\ joy.pc = "555"
    /\ joy' = [joy EXCEPT !.directionPrev = joy.direction, !.pc = "530"]
    /\ UNCHANGED <<engineVars, seqVars, mainVars, GAME_STATE, srv, page, whole, served, polls>>

NextConc ==
    \/ PostMove
    \/ PostRestartKey
    \/ PostRestartButton
    \/ GetJoystickMove
    \/ GetJoystickPoll
    \/ GetPage
    \/ MoveTiles458
    \/ MoveTiles461
    \/ MoveTiles463
    \/ MoveTiles466
    \/ JoystickMoveTiles574
    \/ RestartGame434
    \/ RestartGame435
    \/ Reply
    \/ JoystickPoll
    \/ JoystickGameOverCheck
    \/ JoystickRemember

SpecConc == InitConc /\ [][NextConc]_vars

----------------------------------------------------------------------------
(* Claims about the threads: SpecConc *)

\* The server thread is inside move_tiles or restart_game
OperationUnderWay ==
    srv.pc \in {"455", "461", "463", "466", "434", "435"}

\* The board g is one that the operation the server thread is executing can
\* leave when it completes on the session it began with
BoardAfterOperation(g) ==
    /\ OperationUnderWay
    /\ IF srv.route = "/restart"
       THEN TwoTiles(g)
       ELSE IF ~direction_valid(srv.direction)
       THEN g = whole.grid
       ELSE LET m == move(whole.grid, srv.direction) IN
            IF m.isGridUpdated THEN CanPlace(m.new_grid, g) ELSE g = whole.grid

\* C10: every read of the session (page render, snapshot, the polling loop's
\* game-over check) observes the result of a whole number of completed
\* move_tiles / restart_game operations: the session as the last completed
\* operation left it, or as the operation under way leaves it on completing;
\* never a board moved but not yet given its tile.
C10_ReadsSeeWholeOperations ==
    [][/\ (GetPage \/ JoystickMoveTiles574) => GAME_STATE = whole
       /\ JoystickGameOverCheck =>
             \/ GAME_STATE.grid = whole.grid
             \/ BoardAfterOperation(GAME_STATE.grid)]_vars

\* move_tiles or restart_game returns in this step
OperationReturns ==
    /\ OperationUnderWay
    /\ srv'.pc \in {"574", "reply"}

\* The session t is one that the call of the route, executed alone on the
\* session s, can leave
ExecutedAlone(s, route, direction, t) ==
    IF route = "/restart"
    THEN /\ TwoTiles(t.grid)
         /\ t.score = 0
         /\ t.high_score = s.high_score
    ELSE IF ~direction_valid(direction)
    THEN t = s
    ELSE LET m == move(s.grid, direction) IN
         IF ~m.isGridUpdated
         THEN t = s
         ELSE /\ CanPlace(m.new_grid, t.grid)
              /\ t.score = s.score + m.newAddedScore
              /\ t.high_score = IF t.score > s.high_score THEN t.score
                                ELSE s.high_score

C12_SubmitOnChangeOnly ==
    [][JoystickPoll =>
          (joy'.pc = "553" <=> /\ joy'.direction # ""
                               /\ joy'.direction # joy.direction)]_vars

\* The second cycle observed the direction the first one submitted, and
\* went on to line 555 without submitting it
C12_Witness ==
    /\ polls = 2
    /\ served = 1
    /\ joy.pc = "555"
    /\ joy.direction = "d"
    /\ joy.directionPrev = "d"

----------------------------------------------------------------------------
(* Shutdown: SpecShutdown                                                  *)
(*                                                                         *)
(* The main thread leaves run() of line 605 (the server returns, or a     *)
(* KeyboardInterrupt) and executes lines 610-614, while the polling thread *)
(* goes on with its loop, whose cycles are not bounded here. No browser    *)
(* request is made; the server is left between two requests.               *)

\* The main thread is past run(): no request is accepted any more
ServerClosed == srv.pc \in {"611", "612", "613", "614", "raised"}

\* The call destroy(*args) of the function destroy(adc), lines 506-510
destroy(args) ==
    IF Len(args) = 1
    THEN [raised |-> "", peripherals |-> "released"]
    ELSE [raised |-> "TypeError", peripherals |-> peripherals]

\* Lines 605-610: run() returns or is interrupted
RunReturns ==
    /\ srv.pc = "idle"
    /\ srv' = [pc |-> "611"]
    /\ UNCHANGED <<engineVars, seqVars, mainVars, GAME_STATE, joy, page, whole,
                   served, polls>>

\* Line 611: handle_joystick_input.should_stop = True
ShouldStop611 ==
    /\ srv.pc = "611"
    /\ should_stop' = TRUE
    /\ srv' = [pc |-> "612"]
    /\ UNCHANGED <<engineVars, seqVars, peripherals, GAME_STATE, joy, page, whole,
                   served, polls>>

\* Line 612: joystick_thread.join() returns once the polling thread has ended
Join612 ==
    /\ srv.pc = "612"
    /\ joy.pc = "dead"
    /\ srv' = [pc |-> "613"]
    /\ UNCHANGED <<engineVars, seqVars, mainVars, GAME_STATE, joy, page, whole,
                   served, polls>>

\* Line 613: destroy(), called without the adc argument
Destroy613 ==
    /\ srv.pc = "613"
    /\ LET d == destroy(<<>>) IN
         /\ peripherals' = d.peripherals
         /\ srv' = [pc |-> IF d.raised # "" THEN "raised" ELSE "614"]
    /\ UNCHANGED <<engineVars, seqVars, should_stop, GAME_STATE, joy, page, whole,
                   served, polls>>

\* A cycle of the loop of line 526, "while True": should_stop is not read
JoystickPollOn == JoystickCycle(FALSE)

\* requests.post of line 536 or requests.get of line 553 with the server
\* closed: the connection error is not caught and ends the polling thread
JoystickRequestFails ==
    /\ joy.pc \in {"536", "553"}
    /\ ServerClosed
    /\ joy' = [joy EXCEPT !.pc = "dead"]
    /\ UNCHANGED <<engineVars, seqVars, mainVars, GAME_STATE, srv, page, whole,
                   served, polls>>

PollingThread ==
    \/ JoystickPollOn
    \/ JoystickGameOverCheck
    \/ JoystickRemember
    \/ JoystickRequestFails

\* The main thread inside run(), serving the polling thread's requests
ServeRequests ==
    \/ PostRestartButton
    \/ GetJoystickMove
    \/ MoveTiles458
    \/ MoveTiles461
    \/ MoveTiles463
    \/ MoveTiles466
    \/ JoystickMoveTiles574
    \/ RestartGame434
    \/ RestartGame435
    \/ Reply

\* The main thread past run(), lines 610-614
AfterRun ==
    \/ ShouldStop611
    \/ Join612
    \/ Destroy613

NextShutdown ==
    \/ RunReturns
    \/ ServeRequests
    \/ AfterRun
    \/ PollingThread

\* The polling thread keeps being scheduled, and so does the main thread
\* once it is past run() (from then on ServeRequests is disabled for good);
\* when run() returns is up to the user.
SpecShutdown ==
    /\ InitConc
    /\ [][NextShutdown]_vars
    /\ WF_vars(PollingThread)
    /\ WF_vars(AfterRun)

\* C13: on shutdown the polling loop eventually terminates, the join of line
\* 612 returns, and destroy eventually releases the peripherals.
C13_ShutdownReleasesPeripherals ==
    (srv.pc = "611") ~> (/\ joy.pc = "dead"
                         /\ srv.pc \notin {"611", "612"}
                         /\ peripherals = "released")

----------------------------------------------------------------------------
(* More claims about the session: Spec *)

\* n is a power of two, at least 2 (2^17 is the largest tile 16 cells can hold)
PowerOfTwo(n) == \E e \in 1..(GRID_WIDTH * GRID_WIDTH + 1) : n = 2^e

\* C14: in every state reachable by move_tiles and restart_game calls the
\* board is GRID_WIDTH x GRID_WIDTH and every cell is 0 or a power of two
\* greater than or equal to 2.
C14_CellsArePowersOfTwo ==
    /\ Len(GAME_STATE.grid) = GRID_WIDTH
    /\ \A r \in 1..Len(GAME_STATE.grid) :
          /\ Len(GAME_STATE.grid[r]) = GRID_WIDTH
          /\ \A c \in 1..Len(GAME_STATE.grid[r]) :
                \/ GAME_STATE.grid[r][c] = 0
                \/ PowerOfTwo(GAME_STATE.grid[r][c])

\* A move that merged two 4s into an 8 and spawned a tile
C14_Witness ==
    /\ last.op = "move_tiles"
    /\ last.spawned
    /\ last.raised = ""
    /\ last.addedScore >= 8
    /\ \E c \in Idx \X Idx : GAME_STATE.grid[c[1]][c[2]] = 8

\* The sum of all cells of a board
SumGrid(grid) == SumSeq(List([r \in 1..Len(grid) |-> SumSeq(grid[r])]))

\* The value of the tile by which the board g differs from the moved board
SpawnedValue(moved, g) ==
    LET d == DifferingCells(g, moved)
    IN  IF d = {} THEN 0
        ELSE LET c == CHOOSE x \in d : TRUE IN g[c[1]][c[2]]

\* The sums two spawned tiles can have
TwoTileSums == {v1 + v2 : v1 \in SpawnValues, v2 \in SpawnValues}

\* The values of the tiles spawned up to the k-th call of the recorded play
PlayTiles[k \in 0..Len(PlayDirections)] ==
    IF k = 0 THEN SumGrid(PlayBoards[1])
    ELSE PlayTiles[k - 1]
         + SpawnedValue(move(PlayBoards[k], PlayDirections[k]).new_grid,
                        PlayBoards[k + 1])

\* merge_tiles keeps the sum of every line
MergeKeepsSum ==
    \A ln \in Lines : SumSeq(merge_tiles(ln).merged_line) = SumSeq(ln)

\* Along the recorded play the board sums to the tiles spawned so far
PlayKeepsSum ==
    /\ PlayTiles[0] \in TwoTileSums
    /\ \A k \in 0..Len(PlayDirections) : SumGrid(PlayBoards[k + 1]) = PlayTiles[k]

\* C15: tile value is conserved: merge_tiles keeps the sum of a line, the
\* board move returns has the sum of the board it was given, and a
\* move_tiles call adds to the sum of the board exactly the value of the
\* tile it spawned; a new game sums to its two tiles. So the board always
\* sums to the tiles spawned since the last restart or process start.
C15_TileValueConserved ==
    /\ MergeKeepsSum
    /\ PlayKeepsSum
    /\ last.op \in {"__main__", "restart_game"} =>
           SumGrid(GAME_STATE.grid) \in TwoTileSums
    /\ (ValidMoveCalled /\ last.raised = "") =>
           /\ SumGrid(EngineMove.new_grid) = SumGrid(last.pre.grid)
           /\ SumGrid(GAME_STATE.grid) =
                  SumGrid(last.pre.grid)
                  + (IF last.spawned
                     THEN SpawnedValue(EngineMove.new_grid, GAME_STATE.grid)
                     ELSE 0)

\* A move that merged tiles and spawned a 2: the sum grew by 2 only
C15_Witness ==
    /\ ValidMoveCalled
    /\ last.spawned
    /\ last.addedScore > 0
    /\ SpawnedValue(EngineMove.new_grid, GAME_STATE.grid) = 2
    /\ SumGrid(GAME_STATE.grid) = SumGrid(last.pre.grid) + 2

\* C19: a terminal board is absorbing under moves: a move_tiles call, in any
\* direction, on a session whose board is terminal raises nothing, spawns
\* nothing and leaves board, score and high score unchanged, so the session
\* is still terminal after it; only restart_game leaves the terminal board.
C19_TerminalBoardAbsorbing ==
    (last.op = "move_tiles" /\ is_game_over(last.pre.grid)) =>
        /\ last.raised = ""
        /\ ~last.spawned
        /\ GAME_STATE = last.pre
        /\ is_game_over(GAME_STATE.grid)

\* The second of two calls was a move on the terminal board of the play
C19_Witness ==
    /\ ops = 2
    /\ ValidMoveCalled
    /\ is_game_over(last.pre.grid)
    /\ NoEmptyNoEqualNeighbours(GAME_STATE.grid)
    /\ GAME_STATE = last.pre

\* C20: in every state reached by move_tiles and restart_game calls made
\* one at a time the high score is at least the score; a call never lowers
\* the high score, and lowers the score only if it is restart_game, which
\* sets it to 0.
C20_ScoresMonotone ==
    /\ GAME_STATE.high_score >= GAME_STATE.score
    /\ GAME_STATE.score >= 0
    /\ last.op \in {"move_tiles", "restart_game"} =>
          /\ GAME_STATE.high_score >= last.pre.high_score
          /\ GAME_STATE.score < last.pre.score =>
                (last.op = "restart_game" /\ GAME_STATE.score = 0)

\* After a restart a merge raised the score, which is still below the high
\* score of the game before
C20_Witness ==
    /\ ops = 2
    /\ last.op = "move_tiles"
    /\ GAME_STATE.score > last.pre.score
    /\ GAME_STATE.high_score > GAME_STATE.score
    /\ GAME_STATE.high_score = last.pre.high_score

----------------------------------------------------------------------------
(* More claims about the threads: SpecConc *)

\* joystick_move_tiles has built its snapshot and is about to return it
SnapshotReturned ==
    /\ srv.pc = "reply"
    /\ srv.route = "/joystick_move"
    /\ srv.raised = ""

\* C16: every snapshot joystick_move_tiles returns, with or without a
\* direction and whether or not the move changed anything, carries the
\* session's board, the score and high score that go with it, and a
\* game_over flag that is true exactly when that board has no empty cell
\* and no two equal neighbours, whatever flag the last page showed.
C16_SnapshotFlagFresh ==
    SnapshotReturned =>
        /\ srv.response.grid = whole.grid
        /\ srv.response.score = whole.score
        /\ srv.response.high_score = whole.high_score
        /\ srv.response.game_over = NoEmptyNoEqualNeighbours(srv.response.grid)

\* The snapshot of a move of the polling thread that ended the game, while
\* the page still shows a game in progress
C16_Witness ==
    /\ SnapshotReturned
    /\ srv.from = "poller"
    /\ srv.moved
    /\ srv.response.game_over
    /\ ~page

----------------------------------------------------------------------------
(* The engine on list objects: SpecPure                                    *)
(*                                                                         *)
(* The operators above give what move returns. Whether move writes into    *)
(* the lists it is given is a matter of which list objects its statements  *)
(* create and which they assign into: here a heap maps references to the   *)
(* contents of list objects, a row is a list of cells, a grid a list of    *)
(* references to rows, and each statement of the engine that builds a list *)
(* allocates one, each assignment to an element writes into one.           *)

\* The heap with one more list object, whose reference is Len of the result
New(heap, contents) == Append(heap, contents)

\* The board a grid object stands for
GridValue(heap, grid) ==
    List([i \in 1..Len(heap[grid]) |-> heap[heap[grid][i]]])

\* A grid object for the board b, each row an object of its own (as built by
\* new_game, line 66)
LoadGrid(b) ==
    [heap |-> List([i \in 1..Len(b) |-> b[i]]) \o <<List([i \in 1..Len(b) |-> i])>>,
     ref  |-> Len(b) + 1]

\* A bug merge_tiles could have: merged_line is the list it was given, not a
\* new list (line 103 as "merged_line = line"): the loop writes into it.
merge_tiles_obj_in_place(heap, ln) ==
    LET r  == MergeLoop(heap[ln], 1, 0)
        h2 == [heap EXCEPT ![ln] = r.merged_line]
        h3 == New(h2, NonZero(h2[ln]))
        h4 == New(h3, h3[Len(h3)] \o Zeros(GRID_WIDTH - Len(h3[Len(h3)])))
    IN  [heap |-> h4, ref |-> Len(h4), score |-> r.newAddedScore]

\* merge_tiles(line), lines 102-112: line 103 builds the new list
\* merged_line, lines 105-110 write into it, line 111 builds the packed
\* list and line 112 the list returned.
merge_tiles_obj(heap, ln) ==
    LET h1          == New(heap, NonZero(heap[ln]))
        merged_line == Len(h1)
        r           == MergeLoop(h1[merged_line], 1, 0)
        h2          == [h1 EXCEPT ![merged_line] = r.merged_line]
        h3          == New(h2, NonZero(h2[merged_line]))
        h4          == New(h3, h3[Len(h3)] \o Zeros(GRID_WIDTH - Len(h3[Len(h3)])))
    IN  [heap |-> h4, ref |-> Len(h4), score |-> r.newAddedScore]

\* The element of a set of one element. Only({e(x) : x \in {v}}) is e(v)
\* with v evaluated once.
Only(S) == CHOOSE x \in S : TRUE

\* One turn of the loops of move_left, lines 130-133, and move_right, lines
\* 153-157, for the row object row: new_grid.append writes into the list
\* new_grid; row[::-1] and merged_row[::-1] are new lists.
RowStep(heap, row, new_grid, right) ==
    Only({ Only({ LET h2 == IF right THEN New(m.heap, Reversed(m.heap[m.ref]))
                            ELSE m.heap
                      merged_row == IF right THEN Len(m.heap) + 1 ELSE m.ref
                  IN  [heap  |-> [h2 EXCEPT ![new_grid] = Append(@, merged_row)],
                       score |-> m.score]
                : m \in {merge_tiles_obj(h1, IF right THEN Len(h1) ELSE row)} })
         : h1 \in {IF right THEN New(heap, Reversed(heap[row])) ELSE heap} })

\* The loops of move_left and move_right from row i on
RECURSIVE MoveRows(_, _, _, _, _, _)
MoveRows(heap, grid, new_grid, i, score, right) ==
    IF i > Len(heap[grid])
    THEN [heap |-> heap, ref |-> new_grid, score |-> score]
    ELSE Only({ MoveRows(st.heap, grid, new_grid, i + 1, score + st.score, right)
              : st \in {RowStep(heap, heap[grid][i], new_grid, right)} })

\* move_left(grid), lines 125-135: new_grid = [] is a new list
move_left_obj(heap, grid) ==
    MoveRows(New(heap, <<>>), grid, Len(heap) + 1, 1, 0, FALSE)

\* move_right(grid), lines 148-159
move_right_obj(heap, grid) ==
    MoveRows(New(heap, <<>>), grid, Len(heap) + 1, 1, 0, TRUE)

\* list(map(list, zip(*grid))), lines 174, 176, 191, 193: new row lists and
\* a new list of them
transposed_obj(heap, grid) ==
    LET t == Transposed(GridValue(heap, grid))
    IN  [heap |-> New(heap \o t, List([i \in 1..Len(t) |-> Len(heap) + i])),
         ref  |-> Len(heap) + Len(t) + 1]

\* move_up(grid), lines 172-176, and move_down(grid), lines 189-193
move_transposed_obj(heap, grid, right) ==
    Only({ Only({ Only({ [heap |-> b.heap, ref |-> b.ref, score |-> r.score]
                       : b \in {transposed_obj(r.heap, r.ref)} })
                : r \in {MoveRows(New(t.heap, <<>>), t.ref, Len(t.heap) + 1, 1, 0, right)} })
         : t \in {transposed_obj(heap, grid)} })

\* move_up(grid), lines 172-176
move_up_obj(heap, grid) == move_transposed_obj(heap, grid, FALSE)

\* move_down(grid), lines 189-193
move_down_obj(heap, grid) == move_transposed_obj(heap, grid, TRUE)

\* move(grid, direction), lines 210-225, for a valid direction: what it
\* returns, and the heap it leaves
move_obj(heap, grid, direction) ==
    Only({ [heap          |-> r.heap,
            new_grid      |-> GridValue(r.heap, r.ref),
            newAddedScore |-> r.score,
            isGridUpdated |-> isGridUpdated(GridValue(r.heap, grid),
                                            GridValue(r.heap, r.ref))]
         : r \in {CASE direction = "a" -> move_left_obj(heap, grid)
                   [] direction = "d" -> move_right_obj(heap, grid)
                   [] direction = "w" -> move_up_obj(heap, grid)
                   [] direction = "s" -> move_down_obj(heap, grid)} })

\* The boards move is called on twice: every row one of RowPatterns
PureBoards == {List(b) : b \in [Idx -> RowPatterns]}

InitPure ==
    /\ board \in PureBoards
    /\ boardOut = NotCalled
    /\ line = <<>>
    /\ lineOut = NotCalled
    /\ SessionUnused

\* What a call of move returned, as values
Returned(m) ==
    [new_grid |-> m.new_grid, newAddedScore |-> m.newAddedScore,
     isGridUpdated |-> m.isGridUpdated]

\* move(board, direction) called twice on the same grid object; boardOut
\* keeps what each call returned and the board the object holds after it
CallMoveTwice ==
    /\ boardOut = NotCalled
    /\ \E direction \in ValidDirections :
         \E g \in {LoadGrid(board)} :
         \E first \in {move_obj(g.heap, g.ref, direction)} :
         \E second \in {move_obj(first.heap, g.ref, direction)} :
             boardOut' = [called |-> TRUE, fn |-> "move twice",
                          direction    |-> direction,
                          first        |-> Returned(first),
                          after_first  |-> GridValue(first.heap, g.ref),
                          second       |-> Returned(second),
                          after_second |-> GridValue(second.heap, g.ref)]
    /\ UNCHANGED <<board, line, lineOut, GAME_STATE, last, ops, concVars>>

NextPure == CallMoveTwice

SpecPure == InitPure /\ [][NextPure]_vars

\* C17: move is a pure function of its arguments: a call leaves the board
\* it was given as it was, and a second call on the same board returns the
\* same board, score gained and changed flag as the first (those the
\* operator move gives).
C17_MoveIsPure ==
    boardOut.called =>
        /\ boardOut.after_first = board
        /\ boardOut.after_second = board
        /\ boardOut.second = boardOut.first
        /\ boardOut.first = Returned(move(board, boardOut.direction))

\* Two calls on a board that the move changes, with merges
C17_Witness ==
    /\ boardOut.called
    /\ boardOut.first.isGridUpdated
    /\ boardOut.first.newAddedScore > 0
    /\ boardOut.first.new_grid # board
    /\ boardOut.second = boardOut.first
    /\ boardOut.after_second = board

\* C18: the polling loop issues a restart request (line 536) in a cycle only
\* if the button was pressed in that cycle and the board it read in line
\* 535 has no empty cell and no two equal neighbours; a cycle with the
\* button pressed observes no direction and submits no move, and on a board
\* that is not terminal it goes straight to line 555.
C18_RestartOnlyOnTerminalBoard ==
    [][/\ (joy'.pc = "536" /\ joy.pc # "536") =>
             /\ joy.pc = "535"
             /\ joy.pressed
             /\ NoEmptyNoEqualNeighbours(GAME_STATE.grid)
       /\ PostRestartButton => (joy.pc = "536" /\ joy.pressed)
       /\ GetJoystickMove => ~joy.pressed
       /\ (JoystickPoll /\ joy'.pressed) => (joy'.pc = "535" /\ joy'.direction = "")
       /\ (joy.pc = "535" /\ joy'.pc # "535") =>
             /\ joy'.direction = ""
             /\ joy'.pc = IF NoEmptyNoEqualNeighbours(GAME_STATE.grid)
                          THEN "536" ELSE "555"]_vars

\* The server executes the restart the polling thread posted, with the
\* button pressed, on the terminal board of the play
C18_Witness ==
    /\ srv.pc = "434"
    /\ srv.from = "poller"
    /\ joy.pressed
    /\ NoEmptyNoEqualNeighbours(GAME_STATE.grid)

\* C21: both sources ask for a restart only when the game is over: the
\* polling loop after is_game_over of the board it read in line 535, the
\* page while it shows the game-over message. Every execution of
\* restart_game then replaces, in line 434, a board on which the game is
\* over at that moment; no interleaving of the button's restart with the
\* key's restart or with moves makes it discard a game in progress.
C21_RestartReplacesTerminalBoard ==
    [][RestartGame434 => is_game_over(GAME_STATE.grid)]_vars

====
